---- MODULE Spec2Model ----
(***************************************************************************)
(* Model of cv_net/resnet.py: the two residual block classes, the block    *)
(* registry, and ResNet.__init__ / _create_network / _init_params /        *)
(* forward.  Tensors are modelled by their shape, parameters by the        *)
(* initialiser that last wrote them, and a block's result by the term      *)
(* (postfix token sequence) that computes it.                              *)
(***************************************************************************)
EXTENDS Integers, Sequences, FiniteSets, TLC

(* ------------------------------ bounds --------------------------------- *)
MaxStages == 2
MaxBlocks == 2
MaxC == 2
MaxClasses == 2
MaxHW == 2
MaxN == 1

(* ---------------------------- registries ------------------------------- *)
\* act_fn_by_name is imported from cv_net.util.util: a dictionary from an
\* activation name to the activation's constructor.
act_fn_by_name == [relu |-> "ReLU", tanh |-> "Tanh"]

resnet_blocks_by_name ==
  [ResNetBlock |-> "ResNetBlock", PreActResNetBlock |-> "PreActResNetBlock"]

ActNames == {"relu", "tanh", "nonexistent"}
BlockNames == {"ResNetBlock", "PreActResNetBlock", "nonexistent"}

(* ---------------------------- python lists ----------------------------- *)
\* s[i] for a 0-based index i, negative indices counting from the end.
PyInRange(s, i) == IF i >= 0 THEN i < Len(s) ELSE 0 - i <= Len(s)

PyGet(s, i) == IF i >= 0 THEN s[i + 1] ELSE s[Len(s) + i + 1]

RECURSIVE SumSeq(_)
SumSeq(s) == IF s = <<>> THEN 0 ELSE Head(s) + SumSeq(Tail(s))

RECURSIVE Pow2(_)
Pow2(n) == IF n <= 0 THEN 1 ELSE 2 * Pow2(n - 1)

SeqsUpTo(S, n) == UNION {[1..k -> S] : k \in 1..n}

(* ------------------------------- layers -------------------------------- *)
\* Every primitive is a record of the same layout.  w / b name the
\* initialiser that last wrote the weight / bias ("none": no such tensor).
Default == "runtime_default"

Conv2d(cin, cout, k, pad, stride) ==
  [kind |-> "Conv2d", cin |-> cin, cout |-> cout, k |-> k, pad |-> pad,
   stride |-> stride, ctor |-> "", w |-> Default, b |-> "none"]

BatchNorm2d(c) ==
  [kind |-> "BatchNorm2d", cin |-> c, cout |-> c, k |-> 0, pad |-> 0,
   stride |-> 0, ctor |-> "", w |-> Default, b |-> Default]

Act(ctor) ==
  [kind |-> "Act", cin |-> 0, cout |-> 0, k |-> 0, pad |-> 0,
   stride |-> 0, ctor |-> ctor, w |-> "none", b |-> "none"]

AdaptiveAvgPool2d ==
  [kind |-> "AdaptiveAvgPool2d", cin |-> 0, cout |-> 0, k |-> 0, pad |-> 0,
   stride |-> 0, ctor |-> "", w |-> "none", b |-> "none"]

Flatten ==
  [kind |-> "Flatten", cin |-> 0, cout |-> 0, k |-> 0, pad |-> 0,
   stride |-> 0, ctor |-> "", w |-> "none", b |-> "none"]

Linear(cin, cout) ==
  [kind |-> "Linear", cin |-> cin, cout |-> cout, k |-> 0, pad |-> 0,
   stride |-> 0, ctor |-> "", w |-> Default, b |-> Default]

(* ------------------------------- shapes -------------------------------- *)
\* A tensor is its shape; ok = FALSE is the runtime's shape error.
Tensor(n, c, h, w) == [ok |-> TRUE, flat |-> FALSE, n |-> n, c |-> c, h |-> h, w |-> w]

Vector(n, c) == [ok |-> TRUE, flat |-> TRUE, n |-> n, c |-> c, h |-> 1, w |-> 1]

ShapeError == [ok |-> FALSE, flat |-> FALSE, n |-> 0, c |-> 0, h |-> 0, w |-> 0]

ConvOut(h, k, pad, stride) == ((h + 2 * pad - k) \div stride) + 1

Apply(l, x) ==
  IF ~x.ok THEN ShapeError
  ELSE IF l.kind = "Conv2d" THEN
    IF x.flat \/ x.c # l.cin \/ x.h + 2 * l.pad < l.k \/ x.w + 2 * l.pad < l.k
    THEN ShapeError
    ELSE Tensor(x.n, l.cout, ConvOut(x.h, l.k, l.pad, l.stride),
                ConvOut(x.w, l.k, l.pad, l.stride))
  ELSE IF l.kind = "BatchNorm2d" THEN
    IF x.flat \/ x.c # l.cin THEN ShapeError ELSE x
  ELSE IF l.kind = "Act" THEN x
  ELSE IF l.kind = "AdaptiveAvgPool2d" THEN
    IF x.flat THEN ShapeError ELSE Tensor(x.n, x.c, 1, 1)
  ELSE IF l.kind = "Flatten" THEN
    IF x.flat THEN x ELSE Vector(x.n, x.c * x.h * x.w)
  ELSE \* Linear
    IF ~x.flat \/ x.c # l.cin THEN ShapeError ELSE Vector(x.n, l.cout)

RECURSIVE ApplySeq(_, _)
ApplySeq(ls, x) == IF ls = <<>> THEN x ELSE ApplySeq(Tail(ls), Apply(Head(ls), x))

\* z + x: elementwise addition needs equal shapes.
Add(z, x) == IF z.ok /\ x.ok /\ z = x THEN z ELSE ShapeError

(* ------------------------------- blocks -------------------------------- *)
\* A block keeps its constructor arguments next to the modules it built.
\* down_sample = <<>> stands for None; act_fn = <<>> for no such attribute.
EffectiveCOut(c_in, subsample, c_out) == IF ~subsample THEN c_in ELSE c_out

TransformStride(subsample) == IF subsample THEN 2 ELSE 1

\* Variant: the projection keeps the resolution.
ShortcutConv_Stride1(c_in, c_out) == Conv2d(c_in, c_out, 1, 0, 1)

ShortcutConv(c_in, c_out) == Conv2d(c_in, c_out, 1, 0, 2)

NewResNetBlock(c_in, act_fn, subsample, c_out_arg) ==
  LET c_out == EffectiveCOut(c_in, subsample, c_out_arg) IN
  [cls |-> "ResNetBlock", c_in |-> c_in, subsample |-> subsample,
   c_out_arg |-> c_out_arg, c_out |-> c_out,
   net |-> << Conv2d(c_in, c_out, 3, 1, TransformStride(subsample)),
              BatchNorm2d(c_out),
              Act(act_fn),
              Conv2d(c_out, c_out, 3, 1, 1),
              BatchNorm2d(c_out) >>,
   down_sample |-> IF subsample THEN << ShortcutConv(c_in, c_out) >> ELSE <<>>,
   act_fn |-> << Act(act_fn) >>]

NewPreActResNetBlock(c_in, act_fn, subsample, c_out_arg) ==
  LET c_out == EffectiveCOut(c_in, subsample, c_out_arg) IN
  [cls |-> "PreActResNetBlock", c_in |-> c_in, subsample |-> subsample,
   c_out_arg |-> c_out_arg, c_out |-> c_out,
   net |-> << BatchNorm2d(c_in),
              Act(act_fn),
              Conv2d(c_in, c_out, 3, 1, TransformStride(subsample)),
              BatchNorm2d(c_out),
              Act(act_fn),
              Conv2d(c_out, c_out, 3, 1, 1) >>,
   down_sample |-> IF subsample
                   THEN << BatchNorm2d(c_in), Act(act_fn), ShortcutConv(c_in, c_out) >>
                   ELSE <<>>,
   act_fn |-> <<>>]

NewBlock(cls, c_in, act_fn, subsample, c_out_arg) ==
  IF cls = "PreActResNetBlock"
  THEN NewPreActResNetBlock(c_in, act_fn, subsample, c_out_arg)
  ELSE NewResNetBlock(c_in, act_fn, subsample, c_out_arg)

\* forward(), on shapes.
BlockTransform(b, x) == ApplySeq(b.net, x)

BlockShortcut(b, x) == IF b.down_sample # <<>> THEN ApplySeq(b.down_sample, x) ELSE x

BlockForward(b, x) == ApplySeq(b.act_fn, Add(BlockTransform(b, x), BlockShortcut(b, x)))

RECURSIVE BlocksForward(_, _)
BlocksForward(bs, x) ==
  IF bs = <<>> THEN x ELSE BlocksForward(Tail(bs), BlockForward(Head(bs), x))

\* forward(), on terms: the tokens appended by each statement.
ShortcutTerm(b, xt) == IF b.down_sample # <<>> THEN xt \o <<"down_sample">> ELSE xt

NetTerm(b, xt) == xt \o <<"net">>

AddTerm(zt, xt) == zt \o xt \o <<"+">>

\* Variant: both classes end with the activation.
MergeTail_Always(b) == <<"act_fn">>

MergeTail(b) == IF b.cls = "ResNetBlock" THEN <<"act_fn">> ELSE <<>>

(* ------------------------------ ResNet --------------------------------- *)
VARIABLES hp, pc, err, hparams, input_net, blocks, output_net,
          act_lookups, init_calls, x0, x1, x2, x, bk

netvars == <<hp, pc, err, hparams, input_net, blocks, output_net,
             act_lookups, init_calls, x0, x1, x2, x>>
vars == <<hp, pc, err, hparams, input_net, blocks, output_net,
          act_lookups, init_calls, x0, x1, x2, x, bk>>

NoHparams == [act_fn |-> "", block_class |-> ""]
NoTensor == ShapeError
IdleBk == [pc |-> "idle", cls |-> "", c_in |-> 0, act_fn |-> "", subsample |-> FALSE,
           c_out |-> 0, b |-> <<>>, x0 |-> NoTensor, x |-> NoTensor, z |-> NoTensor,
           out |-> NoTensor, xt |-> <<>>, zt |-> <<>>, outt |-> <<>>]

\* Variant: the assertion is not evaluated.
BlockNameRegistered_Skipped(name) == TRUE

\* assert block_name in resnet_blocks_by_name
BlockNameRegistered(name) == name \in DOMAIN resnet_blocks_by_name

\* Variant: a missing activation name is tolerated when the namespace is built.
HparamsOf_Lazy(h) ==
  IF h.block_name \notin DOMAIN resnet_blocks_by_name
  THEN [err |-> "KeyError:resnet_blocks_by_name", hparams |-> NoHparams]
  ELSE [err |-> "",
        hparams |-> [act_fn |-> IF h.act_fn_name \in DOMAIN act_fn_by_name
                                THEN act_fn_by_name[h.act_fn_name] ELSE "",
                     block_class |-> resnet_blocks_by_name[h.block_name]]]

\* The SimpleNamespace built from the arguments: the two registry lookups,
\* activation first.
HparamsOf(h) ==
  IF h.act_fn_name \notin DOMAIN act_fn_by_name
  THEN [err |-> "KeyError:act_fn_by_name", hparams |-> NoHparams]
  ELSE IF h.block_name \notin DOMAIN resnet_blocks_by_name
  THEN [err |-> "KeyError:resnet_blocks_by_name", hparams |-> NoHparams]
  ELSE [err |-> "",
        hparams |-> [act_fn |-> act_fn_by_name[h.act_fn_name],
                     block_class |-> resnet_blocks_by_name[h.block_name]]]

\* Variant: normalisation and activation follow the convolution for every class.
InputNet_AlwaysNorm(c_hidden, hps) ==
  << Conv2d(3, PyGet(c_hidden, 0), 3, 1, 1),
     BatchNorm2d(PyGet(c_hidden, 0)),
     Act(hps.act_fn) >>

InputNet(c_hidden, hps) ==
  IF hps.block_class = "PreActResNetBlock"
  THEN << Conv2d(3, PyGet(c_hidden, 0), 3, 1, 1) >>
  ELSE << Conv2d(3, PyGet(c_hidden, 0), 3, 1, 1),
          BatchNorm2d(PyGet(c_hidden, 0)),
          Act(hps.act_fn) >>

\* Variant: the first block of every stage subsamples.
Subsample_EveryStage(bc, block_idx) == bc = 0

Subsample(bc, block_idx) == bc = 0 /\ block_idx > 0

\* Variant: a block always takes its own stage's width as input width.
CInIndex_OwnStage(subsample, block_idx) == block_idx

CInIndex(subsample, block_idx) == IF subsample THEN block_idx - 1 ELSE block_idx

\* The two nested loops over enumerate(num_blocks) and range(block_count);
\* an index outside c_hidden raises and leaves the list built so far.
RECURSIVE LoopBlocks(_, _, _, _, _, _)
LoopBlocks(num_blocks, c_hidden, hps, block_idx, bc, acc) ==
  IF block_idx >= Len(num_blocks) THEN [err |-> "", blocks |-> acc]
  ELSE IF bc >= PyGet(num_blocks, block_idx)
  THEN LoopBlocks(num_blocks, c_hidden, hps, block_idx + 1, 0, acc)
  ELSE LET subsample == Subsample(bc, block_idx)
           i_in == CInIndex(subsample, block_idx)
       IN IF ~PyInRange(c_hidden, i_in) \/ ~PyInRange(c_hidden, block_idx)
          THEN [err |-> "IndexError", blocks |-> acc]
          ELSE LoopBlocks(num_blocks, c_hidden, hps, block_idx, bc + 1,
                 Append(acc, NewBlock(hps.block_class, PyGet(c_hidden, i_in),
                                      hps.act_fn, subsample,
                                      PyGet(c_hidden, block_idx))))

OutputNet(c_hidden, num_classes) ==
  << AdaptiveAvgPool2d, Flatten, Linear(PyGet(c_hidden, 0 - 1), num_classes) >>

\* _init_params: the branch taken for one module of self.modules().
KaimingFanOut(name) == "kaiming_normal_fan_out:" \o name

InitModule(m, act_fn_name) ==
  IF m.kind = "Conv2d" THEN [m EXCEPT !.w = KaimingFanOut(act_fn_name)]
  ELSE IF m.kind = "BatchNorm2d" THEN [m EXCEPT !.w = "constant_1", !.b = "constant_0"]
  ELSE m

InitSeq(ms, act_fn_name) == [i \in 1..Len(ms) |-> InitModule(ms[i], act_fn_name)]

\* Variant: only the transform of a block is visited.
InitBlockModules_NetOnly(b, act_fn_name) ==
  [b EXCEPT !.net = InitSeq(b.net, act_fn_name)]

\* self.modules() descends into every attribute of a block.
InitBlockModules(b, act_fn_name) ==
  [b EXCEPT !.net = InitSeq(b.net, act_fn_name),
            !.down_sample = InitSeq(b.down_sample, act_fn_name),
            !.act_fn = InitSeq(b.act_fn, act_fn_name)]

InitBlocks(bs, act_fn_name) == [i \in 1..Len(bs) |-> InitBlockModules(bs[i], act_fn_name)]

(* ------------------------- ResNet(...) and forward --------------------- *)
Hyperparameters ==
  [num_classes : 1..MaxClasses,
   num_blocks : SeqsUpTo(0..MaxBlocks, MaxStages),
   c_hidden : SeqsUpTo(1..MaxC, MaxStages),
   act_fn_name : ActNames,
   block_name : BlockNames]

InitNet ==
  /\ hp \in Hyperparameters
  /\ pc = "start"
  /\ err = ""
  /\ hparams = NoHparams
  /\ input_net = <<>>
  /\ blocks = <<>>
  /\ output_net = <<>>
  /\ act_lookups = 0
  /\ init_calls = 0
  /\ x0 = NoTensor
  /\ x1 = NoTensor
  /\ x2 = NoTensor
  /\ x = NoTensor

Init == InitNet /\ bk = IdleBk

CheckBlockName ==
  /\ pc = "start"
  /\ IF BlockNameRegistered(hp.block_name)
     THEN pc' = "hparams" /\ err' = err
     ELSE pc' = "failed" /\ err' = "AssertionError"
  /\ UNCHANGED <<hp, hparams, input_net, blocks, output_net, act_lookups,
                 init_calls, x0, x1, x2, x, bk>>

MakeHparams ==
  /\ pc = "hparams"
  /\ LET r == HparamsOf(hp) IN
       /\ hparams' = r.hparams
       /\ err' = r.err
       /\ pc' = IF r.err = "" THEN "input_net" ELSE "failed"
  /\ act_lookups' = act_lookups + 1
  /\ UNCHANGED <<hp, input_net, blocks, output_net, init_calls, x0, x1, x2, x, bk>>

CreateInputNet ==
  /\ pc = "input_net"
  /\ input_net' = InputNet(hp.c_hidden, hparams)
  /\ pc' = "blocks"
  /\ UNCHANGED <<hp, err, hparams, blocks, output_net, act_lookups, init_calls,
                 x0, x1, x2, x, bk>>

CreateBlocks ==
  /\ pc = "blocks"
  /\ LET r == LoopBlocks(hp.num_blocks, hp.c_hidden, hparams, 0, 0, <<>>) IN
       /\ blocks' = r.blocks
       /\ err' = r.err
       /\ pc' = IF r.err = "" THEN "output_net" ELSE "failed"
  /\ UNCHANGED <<hp, hparams, input_net, output_net, act_lookups, init_calls,
                 x0, x1, x2, x, bk>>

CreateOutputNet ==
  /\ pc = "output_net"
  /\ output_net' = OutputNet(hp.c_hidden, hp.num_classes)
  /\ pc' = "init_params"
  /\ UNCHANGED <<hp, err, hparams, input_net, blocks, act_lookups, init_calls,
                 x0, x1, x2, x, bk>>

InitParams ==
  /\ pc = "init_params"
  /\ input_net' = InitSeq(input_net, hp.act_fn_name)
  /\ blocks' = InitBlocks(blocks, hp.act_fn_name)
  /\ output_net' = InitSeq(output_net, hp.act_fn_name)
  /\ init_calls' = init_calls + 1
  /\ pc' = "built"
  /\ UNCHANGED <<hp, err, hparams, act_lookups, x0, x1, x2, x, bk>>

\* forward(x): input_net, blocks, output_net in turn; x1 and x2 keep the
\* intermediate values of the local x.
Forward ==
  /\ pc = "built"
  /\ \E n \in 1..MaxN, h \in 1..MaxHW, w \in 1..MaxHW :
       x0' = Tensor(n, 3, h, w)
  /\ x1' = ApplySeq(input_net, x0')
  /\ x2' = BlocksForward(blocks, x1')
  /\ x' = ApplySeq(output_net, x2')
  /\ pc' = IF x'.ok THEN "done" ELSE "fwd_failed"
  /\ err' = IF x'.ok THEN err ELSE "RuntimeError"
  /\ UNCHANGED <<hp, hparams, input_net, blocks, output_net, act_lookups,
                 init_calls, bk>>

Next ==
  \/ CheckBlockName
  \/ MakeHparams
  \/ CreateInputNet
  \/ CreateBlocks
  \/ CreateOutputNet
  \/ InitParams
  \/ Forward

Spec == Init /\ [][Next]_vars

(* ----------------------- one block, statement by statement -------------- *)
BlockClasses == {"ResNetBlock", "PreActResNetBlock"}
ActCtors == {act_fn_by_name[a] : a \in DOMAIN act_fn_by_name}
DefaultCOut == 0 - 1

IdleNet ==
  /\ hp = [num_classes |-> 1, num_blocks |-> <<1>>, c_hidden |-> <<1>>,
           act_fn_name |-> "relu", block_name |-> "ResNetBlock"]
  /\ pc = "idle"
  /\ err = ""
  /\ hparams = NoHparams
  /\ input_net = <<>>
  /\ blocks = <<>>
  /\ output_net = <<>>
  /\ act_lookups = 0
  /\ init_calls = 0
  /\ x0 = NoTensor
  /\ x1 = NoTensor
  /\ x2 = NoTensor
  /\ x = NoTensor

InitBlock ==
  /\ IdleNet
  /\ \E cls \in BlockClasses, c_in \in 1..MaxC, a \in ActCtors,
        subsample \in BOOLEAN, c_out \in {DefaultCOut} \cup (1..MaxC) :
       bk = [IdleBk EXCEPT !.pc = "new", !.cls = cls, !.c_in = c_in, !.act_fn = a,
                           !.subsample = subsample, !.c_out = c_out]

\* __init__ of either block class; the runtime refuses a convolution with a
\* negative number of output channels.
BlockConstruct ==
  /\ bk.pc = "new"
  /\ IF EffectiveCOut(bk.c_in, bk.subsample, bk.c_out) <= 0
     THEN bk' = [bk EXCEPT !.pc = "ctor_failed"]
     ELSE bk' = [bk EXCEPT !.pc = "constructed",
                           !.b = << NewBlock(bk.cls, bk.c_in, bk.act_fn,
                                             bk.subsample, bk.c_out) >>]
  /\ UNCHANGED netvars

\* forward(x) is entered with a tensor of c_in channels.
BlockCall ==
  /\ bk.pc = "constructed"
  /\ \E n \in 1..MaxN, h \in 1..MaxHW, w \in 1..MaxHW :
       bk' = [bk EXCEPT !.pc = "net", !.x0 = Tensor(n, bk.c_in, h, w),
                        !.x = Tensor(n, bk.c_in, h, w), !.xt = <<"x">>]
  /\ UNCHANGED netvars

\* z = self.net(x)
BlockNet ==
  /\ bk.pc = "net"
  /\ bk' = [bk EXCEPT !.pc = "shortcut", !.z = BlockTransform(bk.b[1], bk.x),
                      !.zt = NetTerm(bk.b[1], bk.xt)]
  /\ UNCHANGED netvars

\* if self.down_sample is not None: x = self.down_sample(x)
BlockDownSample ==
  /\ bk.pc = "shortcut"
  /\ bk' = [bk EXCEPT !.pc = "add", !.x = BlockShortcut(bk.b[1], bk.x),
                      !.xt = ShortcutTerm(bk.b[1], bk.xt)]
  /\ UNCHANGED netvars

\* out = z + x
BlockAdd ==
  /\ bk.pc = "add"
  /\ bk' = [bk EXCEPT !.pc = "merged", !.out = Add(bk.z, bk.x),
                      !.outt = AddTerm(bk.zt, bk.xt)]
  /\ UNCHANGED netvars

\* out = self.act_fn(out) (ResNetBlock only); return out
BlockReturn ==
  /\ bk.pc = "merged"
  /\ bk' = [bk EXCEPT !.pc = "returned", !.out = ApplySeq(bk.b[1].act_fn, bk.out),
                      !.outt = bk.outt \o MergeTail(bk.b[1])]
  /\ UNCHANGED netvars

NextBlock ==
  \/ BlockConstruct
  \/ BlockCall
  \/ BlockNet
  \/ BlockDownSample
  \/ BlockAdd
  \/ BlockReturn

SpecBlock == InitBlock /\ [][NextBlock]_vars

(* ------------------------------ properties ----------------------------- *)
KnownNames ==
  /\ hp.act_fn_name \in DOMAIN act_fn_by_name
  /\ hp.block_name \in DOMAIN resnet_blocks_by_name

EqualLengths == Len(hp.num_blocks) = Len(hp.c_hidden)

ValidHp ==
  /\ KnownNames
  /\ EqualLengths
  /\ \A i \in 1..Len(hp.num_blocks) : hp.num_blocks[i] > 0
  /\ \A i \in 1..Len(hp.c_hidden) : hp.c_hidden[i] > 0

\* The constructor has returned a network.
Returned == pc \in {"built", "done", "fwd_failed"}

Assembled == pc = "init_params" \/ Returned

RECURSIVE BlockModules(_)
BlockModules(bs) ==
  IF bs = <<>> THEN <<>>
  ELSE Head(bs).net \o Head(bs).down_sample \o Head(bs).act_fn \o BlockModules(Tail(bs))

Modules == input_net \o BlockModules(blocks) \o output_net

NumLayers == Len(Modules)

Range(f) == {f[i] : i \in DOMAIN f}

ModuleSet ==
  Range(input_net) \cup Range(output_net)
    \cup UNION {Range(b.net) \cup Range(b.down_sample) \cup Range(b.act_fn) :
                b \in Range(blocks)}

NoLayers == input_net = <<>> /\ blocks = <<>> /\ output_net = <<>>

SameOp(m, l) ==
  /\ m.kind = l.kind /\ m.cin = l.cin /\ m.cout = l.cout /\ m.k = l.k
  /\ m.pad = l.pad /\ m.stride = l.stride /\ m.ctor = l.ctor

\* Channels handed from each op of the main path to the next.
ChannelChainOK ==
  LET c0 == input_net[1].cout IN
  /\ \A i \in 2..Len(input_net) :
       input_net[i].kind = "BatchNorm2d" => input_net[i].cin = c0
  /\ \A k \in 1..Len(blocks) :
       blocks[k].c_in = (IF k = 1 THEN c0 ELSE blocks[k - 1].c_out)
  /\ output_net[3].cin = (IF blocks = <<>> THEN c0 ELSE blocks[Len(blocks)].c_out)

InputDivisible ==
  /\ x0.h % Pow2(Len(hp.num_blocks) - 1) = 0
  /\ x0.w % Pow2(Len(hp.num_blocks) - 1) = 0

CeilHalf(h) == (h + 1) \div 2

\* C2: in either block class the transform and the shortcut produce the same
\* shape, so z + x is valid; the result has (c_in, H, W) without subsampling
\* (c_out ignored) and (c_out, ceil(H/2), ceil(W/2)) with subsampling.
C2_BlockShapes ==
  bk.pc \in {"merged", "returned"} =>
    /\ bk.z.ok /\ bk.x.ok /\ bk.z = bk.x
    /\ bk.out.ok /\ ~bk.out.flat /\ bk.out.n = bk.x0.n
    /\ IF bk.subsample
       THEN /\ bk.out.c = bk.c_out
            /\ bk.out.h = CeilHalf(bk.x0.h)
            /\ bk.out.w = CeilHalf(bk.x0.w)
       ELSE /\ bk.out.c = bk.c_in
            /\ bk.out.h = bk.x0.h
            /\ bk.out.w = bk.x0.w

C2_Witness ==
  /\ bk.pc = "returned" /\ bk.subsample /\ bk.c_out # bk.c_in
  /\ bk.x0.h = 1 /\ bk.x0.w = 2
  /\ bk.out.ok /\ bk.out.c = bk.c_out /\ bk.out.h = 1 /\ bk.out.w = 1

\* C3: ResNetBlock.forward returns act_fn(net(x) + shortcut(x)), and
\* PreActResNetBlock.forward returns net(x) + shortcut(x) with nothing after
\* the addition; shortcut(x) is x without subsampling and down_sample(x) with
\* it, and net is applied to the original x.
C3_MergeStep ==
  LET shortcut == IF bk.subsample THEN <<"x", "down_sample">> ELSE <<"x">>
      sum == <<"x", "net">> \o shortcut \o <<"+">>
  IN /\ bk.pc = "merged" => bk.outt = sum
     /\ bk.pc = "returned" =>
          /\ bk.cls = "ResNetBlock" => bk.outt = sum \o <<"act_fn">>
          /\ bk.cls = "PreActResNetBlock" => bk.outt = sum

C3_Witness ==
  /\ bk.pc = "returned" /\ bk.cls = "PreActResNetBlock" /\ bk.subsample
  /\ bk.outt = <<"x", "net", "x", "down_sample", "+">>

\* C4: lists of different lengths are rejected at construction with a
\* MismatchedStageLengths error before any layer exists, and no network is
\* returned.
C4_MismatchRejected ==
  (KnownNames /\ ~EqualLengths) =>
    /\ NumLayers = 0
    /\ ~Returned
    /\ (pc = "failed" => err = "MismatchedStageLengths")

\* C5: an unregistered block_name makes construction fail at the block-name
\* check, before any registry lookup, layer allocation or initialisation.
C5_UnknownBlock ==
  hp.block_name \notin DOMAIN resnet_blocks_by_name =>
    /\ pc \in {"start", "failed"}
    /\ (pc = "failed" => err = "AssertionError")
    /\ NoLayers
    /\ act_lookups = 0
    /\ init_calls = 0

C5_Witness ==
  /\ hp.block_name = "nonexistent" /\ hp.act_fn_name = "relu"
  /\ pc = "failed" /\ err = "AssertionError" /\ NoLayers

\* C6 as stated: an unregistered act_fn_name makes construction fail with the
\* activation lookup error, before any layer is allocated.
C6_UnknownActivationAlways ==
  hp.act_fn_name \notin DOMAIN act_fn_by_name =>
    /\ (pc = "failed" => err = "KeyError:act_fn_by_name")
    /\ NumLayers = 0
    /\ ~Returned

\* C6 (amended): with a registered block_name, an unregistered act_fn_name
\* fails with the activation lookup error before any layer is allocated; with
\* an unregistered block_name the block-name assertion fails first.  The
\* activation is looked up at most once, exactly once before the first layer,
\* and every activation module is built by that one constructor.
C6_ActivationResolvedOnce ==
  /\ (hp.act_fn_name \notin DOMAIN act_fn_by_name =>
        /\ NoLayers
        /\ ~Returned
        /\ pc \in {"start", "hparams", "failed"}
        /\ (pc = "failed" =>
              IF hp.block_name \in DOMAIN resnet_blocks_by_name
              THEN err = "KeyError:act_fn_by_name" /\ act_lookups = 1
              ELSE err = "AssertionError" /\ act_lookups = 0))
  /\ act_lookups <= 1
  /\ (~NoLayers =>
        /\ act_lookups = 1
        /\ hp.act_fn_name \in DOMAIN act_fn_by_name
        /\ hparams.act_fn = act_fn_by_name[hp.act_fn_name]
        /\ \A m \in ModuleSet : m.kind = "Act" => m.ctor = hparams.act_fn)

C6_Witness ==
  /\ hp.act_fn_name = "nonexistent" /\ hp.block_name = "PreActResNetBlock"
  /\ pc = "failed" /\ err = "KeyError:act_fn_by_name"
  /\ act_lookups = 1 /\ NoLayers

\* C7: _init_params runs exactly once, after the whole network is assembled
\* and before the constructor returns; from then on (forward included) every
\* convolution carries the fan-out Kaiming initialisation for the configured
\* activation name, every normalisation has weight 1 and bias 0, and the
\* linear layer keeps the runtime default.
C7_InitOnce ==
  /\ init_calls = (IF Returned THEN 1 ELSE 0)
  /\ \A m \in ModuleSet :
       IF Returned
       THEN /\ m.kind = "Conv2d" =>
                 m.w = "kaiming_normal_fan_out:" \o hp.act_fn_name /\ m.b = "none"
            /\ m.kind = "BatchNorm2d" => m.w = "constant_1" /\ m.b = "constant_0"
            /\ m.kind = "Linear" => m.w = "runtime_default" /\ m.b = "runtime_default"
       ELSE m.w \in {"runtime_default", "none"}
  /\ (Returned => Len(output_net) = 3)

C7_Witness ==
  /\ pc = "done" /\ init_calls = 1
  /\ hp.block_name = "PreActResNetBlock" /\ hp.act_fn_name = "tanh"
  /\ \E k \in 1..Len(blocks) :
       /\ blocks[k].subsample
       /\ blocks[k].down_sample[1].w = "constant_1"
       /\ blocks[k].down_sample[3].w = "kaiming_normal_fan_out:tanh"

\* Position of block (stage i, position j) in the flat list; i is 1-based.
FlatIndex(i, j) == SumSeq(SubSeq(hp.num_blocks, 1, i - 1)) + j + 1

\* C8: the flat list holds sum(num_blocks) blocks in stage order then
\* position order; block (i, j) has subsample = (j = 0 and i is not the first
\* stage), c_in = the previous stage's width if subsample else the stage's
\* own, c_out = the stage's width; with no empty stage exactly
\* len(num_blocks) - 1 blocks subsample.
C8_BlockLayout ==
  (pc = "output_net" \/ Assembled) =>
    /\ Len(blocks) = SumSeq(hp.num_blocks)
    /\ \A i \in 1..Len(hp.num_blocks) :
         \A j \in 0..(hp.num_blocks[i] - 1) :
           LET b == blocks[FlatIndex(i, j)]
               sub == (j = 0 /\ i > 1)
           IN /\ b.subsample = sub
              /\ b.c_in = (IF sub THEN hp.c_hidden[i - 1] ELSE hp.c_hidden[i])
              /\ b.c_out_arg = hp.c_hidden[i]
              /\ b.cls = hparams.block_class
    /\ ((\A i \in 1..Len(hp.num_blocks) : hp.num_blocks[i] > 0) =>
          Cardinality({k \in 1..Len(blocks) : blocks[k].subsample})
            = Len(hp.num_blocks) - 1)

C8_Witness ==
  /\ pc = "built" /\ hp.num_blocks = <<2, 2>> /\ hp.c_hidden = <<1, 2>>
  /\ Len(blocks) = 4
  /\ ~blocks[1].subsample /\ ~blocks[2].subsample
  /\ blocks[3].subsample /\ ~blocks[4].subsample
  /\ blocks[3].c_in = 1 /\ blocks[3].c_out = 2

\* C9: input_net starts with a bias-free 3x3 convolution 3 -> c_hidden[0];
\* that is all of it for PreActResNetBlock, otherwise BatchNorm2d(c_hidden[0])
\* and the activation follow; its output has c_hidden[0] channels and the
\* input's spatial size.
C9_InputAdapter ==
  /\ input_net # <<>> =>
       /\ SameOp(input_net[1],
                 [kind |-> "Conv2d", cin |-> 3, cout |-> hp.c_hidden[1], k |-> 3,
                  pad |-> 1, stride |-> 1, ctor |-> ""])
       /\ input_net[1].b = "none"
       /\ IF hparams.block_class = "PreActResNetBlock"
          THEN Len(input_net) = 1
          ELSE /\ Len(input_net) = 3
               /\ SameOp(input_net[2],
                         [kind |-> "BatchNorm2d", cin |-> hp.c_hidden[1],
                          cout |-> hp.c_hidden[1], k |-> 0, pad |-> 0,
                          stride |-> 0, ctor |-> ""])
               /\ SameOp(input_net[3],
                         [kind |-> "Act", cin |-> 0, cout |-> 0, k |-> 0, pad |-> 0,
                          stride |-> 0, ctor |-> act_fn_by_name[hp.act_fn_name]])
  /\ pc \in {"done", "fwd_failed"} =>
       x1 = [ok |-> TRUE, flat |-> FALSE, n |-> x0.n, c |-> hp.c_hidden[1],
            h |-> x0.h, w |-> x0.w]

C9_Witness ==
  /\ pc = "done" /\ hp.block_name = "PreActResNetBlock"
  /\ Len(input_net) = 1 /\ hp.c_hidden[1] = 2 /\ x1.c = 2 /\ x0.h = 2 /\ x1.h = 2

\* C10: with lists of equal length, a stage of zero blocks leaves the network
\* shape-valid: construction succeeds, every block and the linear layer
\* receive the channel count they expect, and forward raises no shape error.
C10_ZeroStageShapeValid ==
  (KnownNames /\ EqualLengths /\ \E i \in 1..Len(hp.num_blocks) : hp.num_blocks[i] = 0) =>
    /\ pc # "failed"
    /\ (Assembled => ChannelChainOK)
    /\ pc # "fwd_failed"

====
